---------------------------- MODULE Spec2Model ----------------------------
(***************************************************************************)
(* ghbackup: mirror every repository of a GitHub account into a local      *)
(* directory.  The model follows src/main.go: account classification       *)
(* (getCategory), recursive pagination (getRepos), and the worker pool of  *)
(* main that hands every repository to updateRepo over the unbuffered      *)
(* channel jobs.                                                           *)
(*                                                                         *)
(* Strings that the program takes apart (the Link header, URLs) are        *)
(* sequences of tokens; every token the code looks for ("<", ">", ";",     *)
(* ",", rel="next") is one token, so Split / Contains / slicing are        *)
(* computed as the code computes them.                                     *)
(***************************************************************************)
EXTENDS Naturals, Sequences, FiniteSets

(* ------------------------------ bounds --------------------------------- *)

\* Pages the remote service holds for the account.
MaxPages == 2

\* Repositories on one page.
MaxPageSize == 2

\* Repositories of the account, over all pages.
MaxRepos == 3

\* Largest value of maxWorkers that is explored (the source sets 10).
MaxWorkersBound == 2

\* Goroutines inside Run that send on the updates channel.
MaxProducers == 2

\* Updates one of them sends during a run.
MaxUpdates == 2

(* ------------------------------ inputs --------------------------------- *)

\* Repository names the remote service may return.
Names == {"a", "b"}

\* Values of the "type" field of the account document.
AccountTypes == {"User", "Organization", "Bot", ""}

\* Final HTTP status codes of a response.
StatusCodes == {200, 304, 404}

githubApi == "https://api.github.com"

\* The two positional arguments.
name == "acct"
backupDir == "dir"

RelNext == "rel=\"next\""

Rel(r) == IF r = "next" THEN RelNext
          ELSE IF r = "prev" THEN "rel=\"prev\""
          ELSE IF r = "first" THEN "rel=\"first\""
          ELSE "rel=\"last\""

\* Link headers of a page that has a following page: exactly one entry has
\* rel="next", as first, middle or last entry.
NextLayouts == { <<"next", "last">>,
                 <<"prev", "next", "last", "first">>,
                 <<"first", "prev", "next">> }

\* Link headers of the last page: no header at all, or no rel="next" entry.
LastLayouts == { <<>>, <<"prev", "first">> }

SeqsUpTo(S, n) == UNION { [1..k -> S] : k \in 0..n }

Page(lastPage) == [ items : SeqsUpTo(Names, MaxPageSize),
                    links : IF lastPage THEN LastLayouts ELSE NextLayouts ]

RECURSIVE TotalItems(_)
TotalItems(r) == IF Len(r) = 0 THEN 0 ELSE Len(r[1].items) + TotalItems(Tail(r))

\* A paginated listing: P pages chained by "next" links.
Remotes == UNION { { r \in [1..p -> Page(TRUE) \cup Page(FALSE)] :
                       /\ \A k \in 1..p : r[k] \in Page(k = p)
                       /\ TotalItems(r) <= MaxRepos } : p \in 1..MaxPages }

\* What one HTTP exchange can come to: a transport error, a status code, a
\* body that is or is not valid JSON.
Responses == [ err : BOOLEAN, StatusCode : StatusCodes, bodyOk : BOOLEAN ]

NoUrl == <<>>

Workers == 1..MaxWorkersBound

Producers == 1..MaxProducers

\* ghbackup.Update.Type
UpdateTypes == {"UInfo", "UErr"}

VARIABLES
    remote,       \* the pages the service holds (input)
    maxWorkers,   \* var maxWorkers
    verboseFlag,  \* *verboseFlag
    fs,           \* local paths that exist
    mainpc,       \* position of main
    exit,         \* process exit status: "none" while running, then "0" or "2"
    account,      \* the classification exchange: the response and the type it declares
    category,     \* result of getCategory
    nextUrl,      \* URL the next getRepos call fetches
    linkHeader,   \* r.Header["Link"] of the last page fetched
    fetched,      \* URLs fetched by getRepos, in order
    faults,       \* failures met while fetching pages
    repos,        \* result of getRepos so far
    workers,      \* number of workers to start
    started,      \* workers started so far (w of the loop)
    wg,           \* sync.WaitGroup counter
    sent,         \* descriptors sent on jobs
    closed,       \* jobs is closed
    wpc,          \* position of each worker
    wrepo,        \* index in repos of the descriptor a worker holds
    wcmd,         \* the command a worker built: "pull" or "clone"
    invoked,      \* per descriptor: calls of updateRepo
    failed,       \* descriptors whose cmd.Run returned an error
    events,       \* every report made: verbose(...) calls and error prints
    stderr,       \* what was actually written
    denied,       \* descriptors whose existence check met a permission error
    run,          \* which run of the program this is: 1 or 2
    clonedBefore, \* paths an earlier run cloned successfully
    triedBefore,  \* paths an earlier run ran a clone for
    cpc,          \* position of the command-line main
    cexit,        \* exit status of the command-line process: "none", "0" or "1"
    plan,         \* per producer inside Run: the updates it sends, in order
    usent,        \* per producer: how many of them it has sent
    conspc,       \* position of the logging goroutine
    held,         \* the update u the logging goroutine has received
    received,     \* every update received from the channel, in order
    handled,      \* every update the logging goroutine has given to a logger
    cout,         \* what the loggers wrote to stderr
    runErr        \* Run returned a non-nil error

vars == << remote, maxWorkers, verboseFlag, fs, mainpc, exit, account,
           category, nextUrl, linkHeader, fetched, faults, repos, workers,
           started, wg, sent, closed, wpc, wrepo, wcmd, invoked, failed,
           events, stderr, denied, run, clonedBefore, triedBefore, cpc,
           cexit, plan, usent, conspc, held, received, handled, cout,
           runErr >>

runVars == << run, clonedBefore, triedBefore >>
cliVars == << cpc, cexit, plan, usent, conspc, held, received, handled, cout,
             runErr >>
enumVars == << category, nextUrl, linkHeader, fetched, faults, repos, account >>
poolVars == << workers, started, wg, sent, closed, wpc, wrepo, wcmd,
               invoked, failed >>
inputVars == << remote, maxWorkers, verboseFlag >>

(* ----------------------------- strings --------------------------------- *)

\* strings.Join(parts, sep)
RECURSIVE Join(_, _)
Join(parts, sep) ==
    IF Len(parts) = 0 THEN <<>>
    ELSE IF Len(parts) = 1 THEN <<parts[1]>>
    ELSE <<parts[1], sep>> \o Join(Tail(parts), sep)

\* strings.Split(s, sep)[0]: the text before the first sep, all of s if none.
RECURSIVE SplitFirst(_, _)
SplitFirst(s, sep) ==
    IF Len(s) = 0 \/ s[1] = sep THEN <<>>
    ELSE <<s[1]>> \o SplitFirst(Tail(s), sep)

\* strings.Contains(s, tok)
Contains(s, tok) == \E i \in 1..Len(s) : s[i] = tok

\* setMaxPageSize: adds per_page=100 to a URL
setMaxPageSize(rawUrl) == rawUrl \o <<"?", "per_page=100">>

\* The URL main builds for the first page.
FirstUrl(cat) == setMaxPageSize(Join(<<githubApi, cat, name, "repos">>, "/"))

(* --------------------------- remote service ---------------------------- *)

\* Decimal page numbers as they appear in a URL.
Digits == <<"1", "2", "3", "4", "5", "6", "7", "8", "9">>

\* The URL under which the service offers page k of the listing at base.
PageUrl(base, k) == IF k = 1 THEN base ELSE base \o <<"&", "page=", Digits[k]>>

HasPageParam(u) == Len(u) >= 3 /\ u[Len(u) - 1] = "page="

\* The page a URL asks for.
PageOf(u) == IF HasPageParam(u)
             THEN CHOOSE k \in 1..Len(Digits) : Digits[k] = u[Len(u)]
             ELSE 1

\* The listing a URL belongs to: the URL without its page parameter.
BaseOf(u) == IF HasPageParam(u) THEN SubSeq(u, 1, Len(u) - 3) ELSE u

LinkTarget(r, k, p) == IF r = "next" THEN k + 1
                       ELSE IF r = "prev" THEN (IF k > 1 THEN k - 1 ELSE 1)
                       ELSE IF r = "first" THEN 1
                       ELSE p

\* One entry of a Link header: <url>; rel="..."
LinkEntry(base, r, k, p) ==
    <<"<">> \o PageUrl(base, LinkTarget(r, k, p)) \o <<">", ";", " ", Rel(r)>>

RECURSIVE LinkValue(_, _, _, _)
LinkValue(base, layout, k, p) ==
    IF Len(layout) = 0 THEN <<>>
    ELSE IF Len(layout) = 1 THEN LinkEntry(base, layout[1], k, p)
    ELSE LinkEntry(base, layout[1], k, p) \o <<",", " ">>
            \o LinkValue(base, Tail(layout), k, p)

\* r.Header["Link"] of the response for page k: the list of the header's
\* values, empty when the header is absent.
LinkHeaderOf(base, k) ==
    IF Len(remote[k].links) = 0 THEN <<>>
    ELSE << LinkValue(base, remote[k].links, k, Len(remote)) >>


(* ------------------------------- Init ---------------------------------- *)

Paths == { <<backupDir, n>> : n \in Names }

Init ==
    /\ remote \in Remotes
    /\ maxWorkers \in 1..MaxWorkersBound
    /\ verboseFlag \in BOOLEAN
    /\ fs \in SUBSET Paths
    /\ mainpc = "classify"
    /\ exit = "none"
    /\ account = [err |-> FALSE, StatusCode |-> 200, bodyOk |-> TRUE, Type |-> ""]
    /\ category = ""
    /\ nextUrl = NoUrl
    /\ linkHeader = <<>>
    /\ fetched = <<>>
    /\ faults = {}
    /\ repos = <<>>
    /\ workers = 0
    /\ started = 0
    /\ wg = 0
    /\ sent = 0
    /\ closed = FALSE
    /\ wpc = [w \in Workers |-> "unborn"]
    /\ wrepo = [w \in Workers |-> 0]
    /\ wcmd = [w \in Workers |-> "none"]
    /\ invoked = <<>>
    /\ failed = {}
    /\ events = <<>>
    /\ stderr = <<>>
    /\ denied = {}
    /\ run = 1
    /\ clonedBefore = {}
    /\ triedBefore = {}
    /\ cpc = "start"
    /\ cexit = "none"
    /\ plan = [p \in Producers |-> <<>>]
    /\ usent = [p \in Producers |-> 0]
    /\ conspc = "unborn"
    /\ held = <<>>
    /\ received = <<>>
    /\ handled = <<>>
    /\ cout = <<>>
    /\ runErr = FALSE

(* ------------------------------ reports -------------------------------- *)

Info(what, arg) == [type |-> "Info", what |-> what, arg |-> arg]
Error(arg) == [type |-> "Error", what |-> "err", arg |-> arg]

\* Variant: the flag is not consulted.
verboseAlways(out, e) == Append(out, e)

\* verbose(info...): written only if *verboseFlag
verbose(out, e) == IF verboseFlag THEN Append(out, e) ELSE out

\* A panic ends the process, whichever goroutine raises it.
Panic ==
    /\ mainpc' = "panic"
    /\ exit' = "2"

(* --------------------------- getCategory ------------------------------- *)

\* The decoded account.Type: the zero value when the body does not decode.
DecodedType(resp, type) == IF resp.bodyOk THEN type ELSE ""

\* Variant: every account that is not a user is taken for an organization.
CategoryOfDefaultOrgs(resp, type) ==
    IF resp.err THEN "panic"
    ELSE IF resp.StatusCode >= 300 THEN "panic"
    ELSE IF DecodedType(resp, type) = "User" THEN "users"
    ELSE "orgs"

\* The branch getCategory ends in for a response.
CategoryOf(resp, type) ==
    IF resp.err THEN "panic"
    ELSE IF resp.StatusCode >= 300 THEN "panic"
    ELSE IF DecodedType(resp, type) = "User" THEN "users"
    ELSE IF DecodedType(resp, type) = "Organization" THEN "orgs"
    ELSE "panic"

\* category := getCategory(name), and the URL of the first page built from it
GetCategory ==
    /\ mainpc = "classify"
    /\ exit = "none"
    /\ \E resp \in Responses, type \in AccountTypes :
          /\ account' = [err |-> resp.err, StatusCode |-> resp.StatusCode,
                         bodyOk |-> resp.bodyOk, Type |-> type]
          /\ IF CategoryOf(resp, type) = "panic"
             THEN /\ Panic
                  /\ UNCHANGED << category, nextUrl >>
             ELSE /\ category' = CategoryOf(resp, type)
                  /\ nextUrl' = FirstUrl(category')
                  /\ mainpc' = "enumerate"
                  /\ exit' = exit
    /\ UNCHANGED << inputVars, runVars, cliVars, denied, fs, linkHeader, fetched, faults, repos,
                    poolVars, events, stderr >>

(* ----------------------------- getRepos -------------------------------- *)

\* type Repo struct { Name; GitUrl }
Repo(n) == [Name |-> n, GitUrl |-> <<"git://github.com/", name, "/", n>>]

\* json.NewDecoder(r.Body).Decode(&repos): the error is dropped, and a body
\* that is not valid JSON leaves repos nil.
DecodeRepos(resp, items) ==
    IF resp.bodyOk THEN [i \in 1..Len(items) |-> Repo(items[i])] ELSE <<>>

\* Lines 126-135: the URL getRepos recurses on, NoUrl when it returns.
NextFromHeader(hdr) ==
    IF Len(hdr) > 0
    THEN LET firstLink == SplitFirst(hdr[1], ",")
         IN  IF Contains(firstLink, RelNext)
             THEN LET urlInBrackets == SplitFirst(firstLink, ";")
                  IN  SubSeq(urlInBrackets, 2, Len(urlInBrackets) - 1)
             ELSE NoUrl
    ELSE NoUrl

\* The faults of one page exchange.
FaultsOf(resp) ==
    IF resp.err THEN {"transport"}
    ELSE IF resp.StatusCode >= 300 THEN {"status"}
    ELSE IF ~resp.bodyOk THEN {"decode"}
    ELSE {}

\* Whether getRepos panics on a response.
FetchPanics(resp) == resp.err \/ resp.StatusCode >= 300

\* One call of getRepos(u): fetch u, decode, recurse on the next link.  The
\* recursion appends the later pages behind the earlier ones, so the calls
\* accumulate repos in page order.
GetRepos ==
    /\ mainpc = "enumerate"
    /\ exit = "none"
    /\ PageOf(nextUrl) \in 1..Len(remote)
    /\ \E resp \in Responses :
          LET k    == PageOf(nextUrl)
              base == BaseOf(nextUrl)
          IN  /\ fetched' = Append(fetched, nextUrl)
              /\ faults' = faults \cup FaultsOf(resp)
              /\ IF FetchPanics(resp)
                 THEN /\ Panic
                      /\ UNCHANGED << repos, linkHeader, nextUrl, invoked >>
                 ELSE /\ repos' = repos \o DecodeRepos(resp, remote[k].items)
                      /\ invoked' = [i \in 1..Len(repos') |-> 0]
                      /\ linkHeader' = LinkHeaderOf(base, k)
                      /\ nextUrl' = NextFromHeader(linkHeader')
                      /\ mainpc' = IF nextUrl' = NoUrl THEN "summary"
                                   ELSE "enumerate"
                      /\ exit' = exit
    /\ UNCHANGED << inputVars, runVars, cliVars, denied, fs, account, category, workers, started, wg,
                    sent, closed, wpc, wrepo, wcmd, failed, events, stderr >>

(* ------------------------------- main ---------------------------------- *)

\* Variant: the number of workers is not lowered for a short list.
WorkerCountNoMin(n) == maxWorkers

\* Variant: one worker per repository, whatever maxWorkers says.
WorkerCountUncapped(n) == n

\* Lines 47-51: workers := maxWorkers, or len(repos) if that is smaller.
WorkerCount(n) == IF n < maxWorkers THEN n ELSE maxWorkers

\* Variant: the summary counts the workers, not the repositories.
SummaryReportWorkers == Info("summary", WorkerCount(Len(repos)))

\* Line 42: verbose("Backup for", ..., "with", len(repos), "repositories")
SummaryReport == Info("summary", Len(repos))

\* Lines 42-51: the summary line, the jobs channel, the number of workers.
Summary ==
    /\ mainpc = "summary"
    /\ exit = "none"
    /\ events' = Append(events, SummaryReport)
    /\ stderr' = verbose(stderr, SummaryReport)
    /\ workers' = WorkerCount(Len(repos))
    /\ mainpc' = IF workers' = 0 THEN "feed" ELSE "spawn"
    /\ UNCHANGED << inputVars, runVars, cliVars, denied, fs, exit, enumVars, started, wg, sent, closed,
                    wpc, wrepo, wcmd, invoked, failed >>

\* Lines 53-61: wg.Add(1); go func() {...}()
Spawn ==
    /\ mainpc = "spawn"
    /\ exit = "none"
    /\ started < workers
    /\ started' = started + 1
    /\ wg' = wg + 1
    /\ wpc' = [wpc EXCEPT ![started + 1] = "recv"]
    /\ mainpc' = IF started' = workers THEN "feed" ELSE "spawn"
    /\ UNCHANGED << inputVars, runVars, cliVars, denied, fs, exit, enumVars, workers, sent, closed,
                    wrepo, wcmd, invoked, failed, events, stderr >>

\* Variant: the feeder's index lags by one, so the first descriptor is sent
\* twice and the last one never.
NextJobLagging == IF sent = 0 THEN 1 ELSE sent

\* The descriptor the feeder hands over next.
NextJob == sent + 1

\* Lines 64 and 57-58: jobs is unbuffered, so jobs <- repo and the receive of
\* worker w's range loop are one step; the worker then calls updateRepo.
Handoff(w) ==
    /\ mainpc = "feed"
    /\ exit = "none"
    /\ sent < Len(repos)
    /\ ~closed
    /\ wpc[w] = "recv"
    /\ sent' = sent + 1
    /\ wrepo' = [wrepo EXCEPT ![w] = NextJob]
    /\ wpc' = [wpc EXCEPT ![w] = "exists"]
    /\ invoked' = [invoked EXCEPT ![NextJob] = @ + 1]
    /\ UNCHANGED << inputVars, runVars, cliVars, denied, fs, mainpc, exit, enumVars, workers, started,
                    wg, closed, wcmd, failed, events, stderr >>

\* Variant: the channel is closed while descriptors are still to be sent.
CloseEarly ==
    /\ mainpc = "feed"
    /\ exit = "none"
    /\ closed' = TRUE
    /\ mainpc' = IF sent = Len(repos) THEN "wait" ELSE "feed"
    /\ UNCHANGED << inputVars, runVars, cliVars, denied, fs, exit, enumVars, workers, started, wg, sent,
                    wpc, wrepo, wcmd, invoked, failed, events, stderr >>

\* Line 66: close(jobs), once the range over repos is through.
Close ==
    /\ mainpc = "feed"
    /\ exit = "none"
    /\ sent = Len(repos)
    /\ closed' = TRUE
    /\ mainpc' = "wait"
    /\ UNCHANGED << inputVars, runVars, cliVars, denied, fs, exit, enumVars, workers, started, wg, sent,
                    wpc, wrepo, wcmd, invoked, failed, events, stderr >>

\* Variant: the worker returns without wg.Done().
WorkerExitNoDone(w) ==
    /\ exit = "none"
    /\ wpc[w] = "recv"
    /\ closed
    /\ wpc' = [wpc EXCEPT ![w] = "done"]
    /\ UNCHANGED << inputVars, runVars, cliVars, denied, fs, mainpc, exit, enumVars,
                    workers, started, wg, sent, closed, wrepo, wcmd, invoked,
                    failed, events, stderr >>

\* Lines 56-57: the range loop ends on the closed channel; defer wg.Done()
WorkerExit(w) ==
    /\ exit = "none"
    /\ wpc[w] = "recv"
    /\ closed
    /\ wpc' = [wpc EXCEPT ![w] = "done"]
    /\ wg' = wg - 1
    /\ UNCHANGED << inputVars, runVars, cliVars, denied, fs, mainpc, exit, enumVars, workers, started,
                    sent, closed, wrepo, wcmd, invoked, failed, events, stderr >>

\* Variant: main does not wait for the workers.
WaitReturnsAtOnce == TRUE

\* Whether wg.Wait() returns.
WaitReturns == wg = 0

\* Lines 67-68: wg.Wait(), then main returns and the process exits with 0.
Wait ==
    /\ mainpc = "wait"
    /\ exit = "none"
    /\ WaitReturns
    /\ mainpc' = "done"
    /\ exit' = "0"
    /\ UNCHANGED << inputVars, runVars, cliVars, denied, fs, enumVars, poolVars, events, stderr >>

(* ----------------------------- updateRepo ------------------------------ *)

\* Variant: the repository name is not joined to the directory.
RepoDirFlat(repo) == <<backupDir>>

\* path.Join(backupDir, repo.Name)
RepoDir(repo) == <<backupDir, repo.Name>>

\* What os.Stat can say about a path: an entry that exists may be found or
\* be denied, one that does not exist may be missing or be denied.
StatResults(p) == IF p \in fs THEN {"found", "denied"} ELSE {"missing", "denied"}

\* Variant: every error of os.Stat is taken for "does not exist".
existsLenient(st) == IF st = "found" THEN "true" ELSE "false"

\* Lines 173-183: exists returns true, returns false for "does not exist",
\* and panics on any other error.
exists(st) == IF st = "found" THEN "true"
              ELSE IF st = "missing" THEN "false"
              ELSE "panic"

\* Variant: a clone is run whether or not the path exists.
CommandAlwaysClone(ex) == "clone"

\* Lines 158-164: git pull in the directory that exists, git clone otherwise.
Command(ex) == IF ex = "true" THEN "pull" ELSE "clone"

\* Lines 152-164 with exists (173-183): the existence check, which panics on
\* any error other than "does not exist", and the command chosen.
Exists(w) ==
    /\ exit = "none"
    /\ wpc[w] = "exists"
    /\ \E st \in StatResults(RepoDir(repos[wrepo[w]])) :
          /\ denied' = IF st = "denied" THEN denied \cup {wrepo[w]} ELSE denied
          /\ IF exists(st) = "panic"
             THEN /\ Panic
                  /\ UNCHANGED << wpc, wcmd >>
             ELSE /\ wcmd' = [wcmd EXCEPT ![w] = Command(exists(st))]
                  /\ wpc' = [wpc EXCEPT ![w] = "run"]
                  /\ UNCHANGED << mainpc, exit >>
    /\ UNCHANGED << inputVars, runVars, cliVars, fs, enumVars, workers, started, wg, sent,
                    closed, wrepo, invoked, failed, events, stderr >>

\* The deferred verbose(...) of updateRepo: "Updated" or "Cloned".
Deferred(w) == Info(IF wcmd[w] = "pull" THEN "Updated" ELSE "Cloned", wrepo[w])

\* The reports of updateRepo once cmd.Run has returned: the error print, if
\* any, then the deferred verbose call, which runs on every return.
Reports(w, ok) == IF ok THEN << Deferred(w) >> ELSE << Error(wrepo[w]), Deferred(w) >>

\* Variant: a worker gives up after a failed command.
AfterUpdateQuit(ok) == IF ok THEN "recv" ELSE "done"

\* Where a worker goes when updateRepo returns.
AfterUpdate(ok) == "recv"

RECURSIVE Written(_, _)
Written(out, es) ==
    IF Len(es) = 0 THEN out
    ELSE Written(IF es[1].type = "Error" THEN Append(out, es[1])
                 ELSE verbose(out, es[1]), Tail(es))

\* Lines 166-170: cmd.Run() returns; a successful clone creates the path.
CmdReturn(w) ==
    /\ exit = "none"
    /\ wpc[w] = "run"
    /\ \E ok \in BOOLEAN :
          /\ fs' = IF ok /\ wcmd[w] = "clone"
                   THEN fs \cup {RepoDir(repos[wrepo[w]])} ELSE fs
          /\ failed' = IF ok THEN failed ELSE failed \cup {wrepo[w]}
          /\ events' = events \o Reports(w, ok)
          /\ stderr' = Written(stderr, Reports(w, ok))
          /\ wpc' = [wpc EXCEPT ![w] = AfterUpdate(ok)]
    /\ wrepo' = [wrepo EXCEPT ![w] = 0]
    /\ wcmd' = [wcmd EXCEPT ![w] = "none"]
    /\ UNCHANGED << inputVars, runVars, cliVars, denied, mainpc, exit, enumVars, workers, started, wg,
                    sent, closed, invoked >>

(* ------------------------------- Spec ---------------------------------- *)

Next ==
    \/ GetCategory
    \/ GetRepos
    \/ Summary
    \/ Spawn
    \/ Close
    \/ Wait
    \/ \E w \in Workers : Handoff(w)
    \/ \E w \in Workers : WorkerExit(w)
    \/ \E w \in Workers : Exists(w)
    \/ \E w \in Workers : CmdReturn(w)

Spec == Init /\ [][Next]_vars

\* A first run with -verbose into an empty backup directory: every listing
\* and every value of maxWorkers.
InitFair ==
    /\ Init
    /\ verboseFlag
    /\ fs = {}

\* Fair scheduling: a goroutine that can take a step takes one, and every
\* HTTP exchange, os.Stat and git command returns.
SpecFair == InitFair /\ [][Next]_vars /\ WF_vars(Next)

(* --------------------------- a second run ------------------------------ *)

\* The paths the reports of a run name as cloned; with ok, only those whose
\* git clone returned without error.
ClonedPaths(ok) ==
    { RepoDir(repos[events[k].arg]) :
         k \in { j \in 1..Len(events) :
                    /\ events[j].what = "Cloned"
                    /\ ok => events[j].arg \notin failed } }

\* The program is started again with the same arguments once the first
\* process has ended: the remote listing and the backup directory are what
\* the first run left, everything else is as at the start of main.
Rerun ==
    /\ run = 1
    /\ exit # "none"
    /\ run' = 2
    /\ clonedBefore' = ClonedPaths(TRUE)
    /\ triedBefore' = ClonedPaths(FALSE)
    /\ mainpc' = "classify"
    /\ exit' = "none"
    /\ account' = [err |-> FALSE, StatusCode |-> 200, bodyOk |-> TRUE, Type |-> ""]
    /\ category' = ""
    /\ nextUrl' = NoUrl
    /\ linkHeader' = <<>>
    /\ fetched' = <<>>
    /\ faults' = {}
    /\ repos' = <<>>
    /\ workers' = 0
    /\ started' = 0
    /\ wg' = 0
    /\ sent' = 0
    /\ closed' = FALSE
    /\ wpc' = [w \in Workers |-> "unborn"]
    /\ wrepo' = [w \in Workers |-> 0]
    /\ wcmd' = [w \in Workers |-> "none"]
    /\ invoked' = <<>>
    /\ failed' = {}
    /\ events' = <<>>
    /\ stderr' = <<>>
    /\ denied' = {}
    /\ UNCHANGED << inputVars, cliVars, fs >>

\* A first run with -verbose against an account whose listing is one page.
InitRerun ==
    /\ Init
    /\ verboseFlag
    /\ Len(remote) = 1
    /\ remote[1].links = <<>>

NextRerun == Next \/ Rerun

SpecRerun == InitRerun /\ [][NextRerun]_vars

(* ------------------------ command-line front end ----------------------- *)

\* ghbackup.Update{Type, Message}; the message tells which producer sent it
\* and as which of its updates.
Update(t, p, i) == [Type |-> t, from |-> p, seq |-> i]

\* The updates the goroutines of one call of Run send, each in its order.
Plans ==
    { [p \in Producers |-> [i \in 1..Len(ts[p]) |-> Update(ts[p][i], p, i)]] :
         ts \in [Producers -> SeqsUpTo(UpdateTypes, MaxUpdates)] }

\* part_000, lines 55-68: make(chan ghbackup.Update), go func() {...}(), and
\* the call of ghbackup.Run with the channel.
CliStart ==
    /\ cpc = "start"
    /\ cexit = "none"
    /\ plan' \in Plans
    /\ conspc' = "recv"
    /\ cpc' = "running"
    /\ UNCHANGED << inputVars, runVars, denied, fs, mainpc, exit, enumVars,
                    poolVars, events, stderr, cexit, usent, held, received,
                    handled, cout, runErr >>

\* The update producer p sends next.
NextUpdate(p) == plan[p][usent[p] + 1]

\* A send on updates inside Run and the receive of line 58: the channel is
\* unbuffered, so the two are one step, taken when the logging goroutine is
\* at its receive.
Send(p) ==
    /\ cpc = "running"
    /\ cexit = "none"
    /\ usent[p] < Len(plan[p])
    /\ conspc = "recv"
    /\ usent' = [usent EXCEPT ![p] = @ + 1]
    /\ held' = << NextUpdate(p) >>
    /\ received' = Append(received, NextUpdate(p))
    /\ conspc' = "log"
    /\ UNCHANGED << inputVars, runVars, denied, fs, mainpc, exit, enumVars,
                    poolVars, events, stderr, cpc, cexit, plan, handled, cout,
                    runErr >>

\* Lines 45-53 and 59-64: errLogger writes to stderr, verboseLogger writes
\* to stderr with -verbose and discards otherwise.
Logged(out, u) ==
    IF u.Type = "UErr" THEN Append(out, u)
    ELSE IF verboseFlag THEN Append(out, u)
    ELSE out

\* Variant: the logging goroutine returns after an error update.
ConsumerNextStopOnErr(u) == IF u.Type = "UErr" THEN "stopped" ELSE "recv"

\* Lines 58 and 65: after the switch the range loop receives again.
ConsumerNext(u) == "recv"

\* Lines 59-64: the switch on u.Type and the Println of the logger chosen.
LogUpdate ==
    /\ cexit = "none"
    /\ conspc = "log"
    /\ handled' = Append(handled, held[1])
    /\ cout' = Logged(cout, held[1])
    /\ conspc' = ConsumerNext(held[1])
    /\ held' = <<>>
    /\ UNCHANGED << inputVars, runVars, denied, fs, mainpc, exit, enumVars,
                    poolVars, events, stderr, cpc, cexit, plan, usent,
                    received, runErr >>

\* Run returns once every goroutine it started has sent its updates; the
\* error it returns is nil or not.
RunReturn ==
    /\ cpc = "running"
    /\ cexit = "none"
    /\ \A p \in Producers : usent[p] = Len(plan[p])
    /\ runErr' \in BOOLEAN
    /\ cpc' = "returned"
    /\ UNCHANGED << inputVars, runVars, denied, fs, mainpc, exit, enumVars,
                    poolVars, events, stderr, cexit, plan, usent, conspc,
                    held, received, handled, cout >>

\* What main's errLogger.Println(err) writes.
RunError == Update("UErr", 0, 0)

\* Lines 74-78: errLogger.Println(err) and os.Exit(1) on an error, else
\* main returns; either way the process ends with its goroutines.
CliExit ==
    /\ cpc = "returned"
    /\ cexit = "none"
    /\ cout' = IF runErr THEN Append(cout, RunError) ELSE cout
    /\ cexit' = IF runErr THEN "1" ELSE "0"
    /\ cpc' = "exited"
    /\ UNCHANGED << inputVars, runVars, denied, fs, mainpc, exit, enumVars,
                    poolVars, events, stderr, plan, usent, conspc, held,
                    received, handled, runErr >>

\* One listing, one value of maxWorkers, an empty directory: nothing of the
\* old program runs under the front end.
InitCli ==
    /\ Init
    /\ remote = << [items |-> <<>>, links |-> <<>>] >>
    /\ maxWorkers = 1
    /\ fs = {}

NextCli ==
    \/ CliStart
    \/ LogUpdate
    \/ RunReturn
    \/ CliExit
    \/ \E p \in Producers : Send(p)

\* The goroutines are scheduled fairly, and the senders blocked on a channel
\* are served in the order they arrived, so none is passed over forever.
SpecCli ==
    /\ InitCli
    /\ [][NextCli]_vars
    /\ WF_vars(CliStart)
    /\ WF_vars(LogUpdate)
    /\ WF_vars(RunReturn)
    /\ WF_vars(CliExit)
    /\ \A p \in Producers : SF_vars(Send(p))

(* ------------------------------ claims --------------------------------- *)

NumRepos == Len(repos)

\* The reports of a kind made for descriptor i.
ReportsFor(kinds, i) ==
    { k \in 1..Len(events) : events[k].what \in kinds /\ events[k].arg = i }

ReportsOf(kinds) == { k \in 1..Len(events) : events[k].what \in kinds }

Completion == {"Cloned", "Updated"}

\* A worker is inside updateRepo: at the existence check or its command runs.
Operating(w) == wpc[w] \in {"exists", "run"}

PathOf(w) == RepoDir(repos[wrepo[w]])

\* C1: no descriptor is ever handed to updateRepo twice, and when main has
\* returned every descriptor of the set was handed to updateRepo exactly once
\* and that call ran to its end exactly once.
C1_EachRepoOnce ==
    /\ \A i \in 1..Len(invoked) : invoked[i] <= 1
    /\ mainpc = "done" =>
          \A i \in 1..NumRepos :
             /\ invoked[i] = 1
             /\ Cardinality(ReportsFor(Completion, i)) = 1

C1_Witness ==
    /\ mainpc = "done"
    /\ NumRepos = 3
    /\ started = 2
    /\ \A i \in 1..NumRepos : invoked[i] = 1

\* C2 as stated: whatever repository set the enumerator returned, no two
\* workers are inside updateRepo on the same local path at the same time.
C2_NoSharedPath ==
    \A v, w \in Workers :
       (v # w /\ Operating(v) /\ Operating(w)) => PathOf(v) # PathOf(w)

NamesDistinct ==
    \A i, j \in 1..NumRepos : i # j => repos[i].Name # repos[j].Name

\* C2 amended: when the names of the repository set are pairwise distinct, no
\* two workers are inside updateRepo on the same local path at the same time.
C2_NoSharedPathDistinctNames == NamesDistinct => C2_NoSharedPath

C2_Witness ==
    /\ NamesDistinct
    /\ \E v, w \in Workers : v # w /\ wpc[v] = "run" /\ wpc[w] = "run"

\* C3: main has returned only if the queue is closed, every descriptor was
\* sent, every worker that was started has ended, and no worker is inside
\* updateRepo.
C3_CompleteOnlyWhenDrained ==
    mainpc = "done" =>
       /\ closed
       /\ sent = NumRepos
       /\ started = workers
       /\ \A w \in Workers : wpc[w] \in {"unborn", "done"}
       /\ \A w \in Workers : ~Operating(w)

C3_Witness ==
    /\ mainpc = "done"
    /\ started = 2
    /\ NumRepos >= 2
    /\ \A w \in 1..started : wpc[w] = "done"

\* C4: a failed clone or pull is reported by exactly one Error report, for
\* that descriptor and no other; it ends no worker (a worker ends only on the
\* closed queue) and does not end the process (after dispatch began the
\* process dies only in an existence check); a run that returns has processed
\* every descriptor, the failed ones and the others.
C4_FailureIsRecoverable ==
    /\ \A i \in 1..NumRepos :
          Cardinality(ReportsFor({"err"}, i)) = IF i \in failed THEN 1 ELSE 0
    /\ \A w \in Workers : wpc[w] = "done" => closed
    /\ (exit = "2" /\ started > 0) => \E w \in Workers : wpc[w] = "exists"
    /\ (mainpc = "done" /\ failed # {}) =>
          \A i \in 1..NumRepos : invoked[i] = 1

C4_Witness ==
    /\ mainpc = "done"
    /\ 1 \in failed
    /\ NumRepos = 3
    /\ failed = {1}
    /\ Cardinality(ReportsOf(Completion)) = 3

HasErrorReport == ReportsOf({"err"}) # {}

\* The process died before dispatch began: in getCategory or in getRepos.
DiscoveryFatal == mainpc = "panic" /\ workers = 0 /\ events = <<>>

\* C5: a run that came to its end, by returning from main or by a fatal
\* classification or enumeration error, has a failure exit status if and only
\* if an Error report was made or discovery failed.
C5_ExitStatusReflectsErrors ==
    (mainpc = "done" \/ DiscoveryFatal) =>
       (exit # "0" <=> (HasErrorReport \/ DiscoveryFatal))

\* C6: a "Cloned"/"Updated" report is made for a descriptor only if its
\* command succeeded, and a run of N descriptors of which k failed has made k
\* Error reports and N-k "Cloned"/"Updated" reports.
C6_SuccessInfoOnlyOnSuccess ==
    /\ \A i \in failed : ReportsFor(Completion, i) = {}
    /\ mainpc = "done" =>
          /\ Cardinality(ReportsOf({"err"})) = Cardinality(failed)
          /\ Cardinality(ReportsOf(Completion)) + Cardinality(failed) = NumRepos

RECURSIVE AllItems(_)
AllItems(r) == IF Len(r) = 0 THEN <<>> ELSE r[1].items \o AllItems(Tail(r))

Enumerated == mainpc \in {"summary", "spawn", "feed", "wait", "done"}

\* C7: when enumeration has ended and no exchange failed, every page was
\* fetched once, in order, and the result is the concatenation of the pages.
C7_ConcatenatesAllPages ==
    (Enumerated /\ faults = {}) =>
       /\ fetched = [k \in 1..Len(remote) |-> PageUrl(FirstUrl(category), k)]
       /\ repos = [i \in 1..Len(AllItems(remote)) |-> Repo(AllItems(remote)[i])]

\* The entries of a Link header value: the text between the commas.
RECURSIVE LinkEntries(_)
LinkEntries(s) ==
    IF Len(s) = 0 THEN <<>>
    ELSE LET e == SplitFirst(s, ",")
         IN  IF Len(e) = Len(s) THEN <<e>>
             ELSE <<e>> \o LinkEntries(SubSeq(s, Len(e) + 2, Len(s)))

\* The text strictly between "<" and ">" of an entry.
BetweenBrackets(e) ==
    LET lt == CHOOSE i \in 1..Len(e) : e[i] = "<"
        gt == CHOOSE i \in 1..Len(e) : e[i] = ">"
    IN  SubSeq(e, lt + 1, gt - 1)

NextEntries(hdr) ==
    IF Len(hdr) = 0 THEN {}
    ELSE { i \in 1..Len(LinkEntries(hdr[1])) : Contains(LinkEntries(hdr[1])[i], RelNext) }

\* C8: after a page was fetched without fault, the URL followed is the text between the
\* brackets of the one entry with rel="next", wherever that entry stands; with
\* no such entry the page is the last.
C8_FollowsNextEntry ==
    (mainpc \in {"enumerate", "summary"} /\ Len(fetched) >= 1 /\ faults = {}) =>
       IF NextEntries(linkHeader) = {}
       THEN nextUrl = NoUrl
       ELSE \A i \in NextEntries(linkHeader) :
               nextUrl = BetweenBrackets(LinkEntries(linkHeader[1])[i])

ClassificationOk ==
    /\ ~account.err
    /\ account.StatusCode \in 200..299
    /\ account.bodyOk
    /\ account.Type \in {"User", "Organization"}

\* C9: once classification or a page exchange has failed (transport, status,
\* decoding, unknown account type) the process has died, no worker was
\* started, updateRepo was never called and no report was made.
C9_DiscoveryFailureIsFatal ==
    ((mainpc # "classify" /\ ~ClassificationOk) \/ faults # {}) =>
       /\ mainpc = "panic"
       /\ started = 0
       /\ \A i \in 1..Len(invoked) : invoked[i] = 0
       /\ events = <<>>

\* C10: after classification, an account whose exchange succeeded and
\* declares "User" has category "users", one that declares "Organization" has
\* "orgs", and the first URL fetched is built from that segment; in every
\* other case the process has died and no listing URL was built or fetched.
C10_ClassifierMapping ==
    mainpc # "classify" =>
       IF ClassificationOk
       THEN /\ category = (IF account.Type = "User" THEN "users" ELSE "orgs")
            /\ Len(fetched) >= 1 =>
                  fetched[1] = << githubApi, "/", category, "/", name, "/",
                                  "repos", "?", "per_page=100" >>
       ELSE /\ mainpc = "panic"
            /\ exit = "2"
            /\ category = ""
            /\ nextUrl = NoUrl
            /\ fetched = <<>>

C10_Witness ==
    /\ account.Type = "Organization"
    /\ category = "orgs"
    /\ Len(fetched) >= 1

MinOf(a, b) == IF a < b THEN a ELSE b

Dispatching == mainpc \in {"feed", "wait", "done"}

\* C11: once the workers are started their number is min(N, maxWorkers); for
\* an empty repository set no worker is ever started and nothing is sent, and
\* the run that returns has made the summary report and no other and exits
\* with status 0.
C11_WorkerCount ==
    /\ started <= MinOf(NumRepos, maxWorkers)
    /\ Dispatching => started = MinOf(NumRepos, maxWorkers)
    /\ (Dispatching /\ NumRepos = 0) =>
          /\ started = 0
          /\ sent = 0
          /\ \A w \in Workers : wpc[w] = "unborn"
          /\ events = << Info("summary", 0) >>
    /\ (mainpc = "done" /\ NumRepos = 0) => exit = "0"

C11_Witness ==
    /\ mainpc = "done"
    /\ NumRepos = 0
    /\ faults = {}
    /\ started = 0
    /\ exit = "0"

RECURSIVE Surfaced(_, _)
Surfaced(es, flag) ==
    IF Len(es) = 0 THEN <<>>
    ELSE (IF es[1].type = "Error" \/ flag THEN <<es[1]>> ELSE <<>>)
            \o Surfaced(Tail(es), flag)

\* C13: what was written is the sequence of reports made, with every Error
\* report kept whatever the verbose flag says, and the Info reports kept if
\* and only if the flag is set.
C13_ErrorsAlwaysSurfaced == stderr = Surfaced(events, verboseFlag)

C13_Witness ==
    /\ ~verboseFlag
    /\ Cardinality(ReportsOf({"err"})) = 1
    /\ Cardinality(ReportsOf(Completion)) >= 2
    /\ Len(stderr) = 1
    /\ stderr[1].type = "Error"

InFlight == { w \in Workers : Operating(w) }

\* C16: the number of workers inside updateRepo never exceeds
\* min(N, maxWorkers); a worker holds a descriptor exactly while it is inside
\* updateRepo, so it has at most one operation in flight.
C16_BoundedConcurrency ==
    /\ Cardinality(InFlight) <= MinOf(NumRepos, maxWorkers)
    /\ \A w \in Workers : Operating(w) <=> wrepo[w] \in 1..NumRepos

C16_Witness ==
    /\ Cardinality(InFlight) = 2
    /\ maxWorkers = 2
    /\ NumRepos = 3
    /\ \A w \in Workers : wpc[w] = "run"

\* C17: the queue is closed only when every descriptor was sent and stays
\* closed; a descriptor is sent only by main's feeding loop, one at a time
\* and never once the queue is closed; the queue is closed by main alone, in
\* the step that ends the feeding loop; a worker ends only from its receive,
\* on the closed queue.
C17_QueueProtocol ==
    /\ [](closed => sent = NumRepos)
    /\ [][ /\ closed => (closed' /\ sent' = sent)
           /\ sent' # sent => (mainpc = "feed" /\ ~closed /\ sent' = sent + 1)
           /\ (~closed /\ closed') => (mainpc = "feed" /\ mainpc' = "wait")
           /\ \A w \in Workers :
                 (wpc[w] # "done" /\ wpc'[w] = "done") =>
                    (closed /\ wpc[w] = "recv" /\ sent = NumRepos) ]_vars

C17_Witness ==
    /\ closed
    /\ sent = 3
    /\ \E w \in Workers : wpc[w] = "done"
    /\ \E w \in Workers : wpc[w] = "run"

Summaries == ReportsOf({"summary"})

\* C18: no report is made before enumeration has ended; from the summary
\* step on there is exactly one summary report, it is the first report, and
\* its count is the length of the repository set that is dispatched; no
\* worker is started and updateRepo is not called before it.
C18_OneSummaryBeforeDispatch ==
    /\ mainpc \in {"classify", "enumerate", "summary"} =>
          (events = <<>> /\ started = 0 /\ sent = 0)
    /\ Dispatching \/ mainpc = "spawn" =>
          (Len(events) >= 1 /\ events[1] = Info("summary", NumRepos))
    /\ (started > 0 \/ sent > 0) => Len(events) >= 1
    /\ Cardinality(Summaries) <= 1
    /\ Summaries # {} => (events[1] = Info("summary", NumRepos) /\ Len(repos) = Len(invoked))

C18_Witness ==
    /\ mainpc = "done"
    /\ NumRepos = 3
    /\ Len(events) = 4
    /\ events[1] = Info("summary", 3)

\* C15: once an existence check met an error other than "does not exist",
\* the process has died with a panic; the worker that met it never built a
\* command for that descriptor and no report was made for it; and after the
\* process has died no descriptor is sent, no worker moves and no report is
\* made.
C15_StatErrorIsFatal ==
    /\ [](\A i \in denied :
             /\ exit = "2"
             /\ mainpc = "panic"
             /\ ReportsFor(Completion \cup {"err"}, i) = {}
             /\ \E w \in Workers :
                   wrepo[w] = i /\ wpc[w] = "exists" /\ wcmd[w] = "none")
    /\ [][exit # "none" =>
             /\ sent' = sent
             /\ wpc' = wpc
             /\ wcmd' = wcmd
             /\ invoked' = invoked
             /\ events' = events
             /\ fs' = fs]_vars

C15_Witness ==
    /\ denied # {}
    /\ exit = "2"
    /\ sent < NumRepos
    /\ \E w \in Workers : wpc[w] = "run"

\* A worker that can still receive: it waits on jobs or will return to it.
Receiver(w) == wpc[w] \in {"recv", "exists", "run"}

\* C14: under fair scheduling every run ends: once the repository set is
\* enumerated, main returns (every descriptor sent, the queue closed, every
\* worker ended) unless an existence check ends the process first; and in no
\* state of a running program is the feeder at a send with no worker left
\* that can receive.
C14_TerminatesWithoutDeadlock ==
    /\ [](( mainpc = "feed" /\ exit = "none" /\ sent < NumRepos ) =>
             \E w \in Workers : Receiver(w))
    /\ (Enumerated ~>
          \/ /\ mainpc = "done"
             /\ sent = NumRepos
             /\ closed
             /\ \A w \in Workers : wpc[w] \in {"unborn", "done"}
          \/ /\ mainpc = "panic"
             /\ denied # {})
    /\ <>(exit # "none")

C14_Witness ==
    /\ mainpc = "feed"
    /\ sent = 2
    /\ NumRepos = 3
    /\ \A w \in Workers : wpc[w] = "run"

\* What ends a run with a panic: the classification or a page exchange
\* failed, or an existence check met an error other than "does not exist".
EnvironmentFault ==
    \/ CategoryOf(account, account.Type) = "panic"
    \/ faults \cap {"transport", "status"} # {}
    \/ denied # {}

\* The command is chosen by the existence of the path at the check.
ChosenByExistence ==
    [][\A w \in Workers :
          (wpc[w] = "exists" /\ wpc'[w] = "run") =>
             wcmd'[w] = IF PathOf(w) \in fs THEN "pull" ELSE "clone"]_vars

\* C12 as stated: the worker pulls when the path exists and clones otherwise;
\* in a second run against the same account and directory every repository
\* the first run ran a clone for is updated, and the second run meets no
\* fatal error of its own making.
C12_SecondRunUpdates ==
    /\ ChosenByExistence
    /\ [](run = 2 =>
            /\ \A w \in Workers :
                  (wpc[w] = "run" /\ PathOf(w) \in triedBefore) => wcmd[w] = "pull"
            /\ exit = "2" => EnvironmentFault)

\* C12, amended: the worker pulls when the path exists and clones otherwise;
\* in a second run every repository whose clone succeeded in the first run
\* is updated, and the second run ends with a panic only on a failure of the
\* remote service or of an existence check.
C12_SecondRunUpdatesCloned ==
    /\ ChosenByExistence
    /\ [](run = 2 =>
            /\ \A w \in Workers :
                  (wpc[w] = "run" /\ PathOf(w) \in clonedBefore) => wcmd[w] = "pull"
            /\ exit = "2" => EnvironmentFault)

C12_Witness ==
    /\ run = 2
    /\ clonedBefore # {}
    /\ triedBefore # clonedBefore
    /\ \E w \in Workers :
          /\ wpc[w] = "run"
          /\ PathOf(w) \in clonedBefore
          /\ wcmd[w] = "pull"

\* The updates of producer p in a sequence of updates, in their order.
RECURSIVE From(_, _)
From(us, p) ==
    IF Len(us) = 0 THEN <<>>
    ELSE IF us[1].from = p THEN <<us[1]>> \o From(Tail(us), p)
    ELSE From(Tail(us), p)

RECURSIVE SumSent(_)
SumSent(P) ==
    IF P = {} THEN 0
    ELSE LET p == CHOOSE q \in P : TRUE IN usent[p] + SumSent(P \ {p})

\* C19: what the logging goroutine has received is, producer by producer,
\* exactly what that producer has sent, in the order sent and each update
\* once and whole; the process, and with it the consumer, lives while Run
\* runs and the consumer is at its receive or on its way back to it; and
\* under fair scheduling every producer gets all its updates sent.
C19_InOrderDelivery ==
    /\ [](/\ \A p \in Producers :
               From(received, p) = SubSeq(plan[p], 1, usent[p])
          /\ Len(received) = SumSent(Producers)
          /\ cpc = "running" => (cexit = "none" /\ conspc \in {"recv", "log"}))
    /\ \A p \in Producers :
          (cpc = "running") ~> (usent[p] = Len(plan[p]))

C19_Witness ==
    /\ cpc = "running"
    /\ Len(received) = MaxProducers * MaxUpdates
    /\ \E k \in 1..(Len(received) - 1) :
          /\ received[k].from # received[k + 1].from
          /\ received[k].Type = "UErr"

\* C20: when the process has exited, every update sent on the channel has
\* been given to a logger, and every error update is on stderr.
C20_NoUpdateLostAtExit ==
    cexit # "none" =>
       /\ handled = received
       /\ \A k \in 1..Len(received) :
             received[k].Type = "UErr" =>
                \E j \in 1..Len(cout) : cout[j] = received[k]

=============================================================================
